---- MODULE Spec2Model ----
(***************************************************************************)
(* Loan-task tracker: the workflow engine (packages/shared workflow), the  *)
(* JSON document store with its promise-chain write queue, the task        *)
(* service (create / claim / unclaim / transition / maintenance sweep) and *)
(* the notification and broadcast sinks.                                   *)
(*                                                                         *)
(* Instants are minutes since a Monday 00:00 UTC; the code's ISO strings   *)
(* and millisecond arithmetic are kept at minute granularity.  An optional *)
(* field that is absent is NoTime (timestamps) or NoUser (identities).     *)
(***************************************************************************)
EXTENDS Integers, Sequences, FiniteSets, TLC

(***************************************************************************)
(* Bounds of the model.                                                    *)
(***************************************************************************)
MaxTasks == 1
MaxOps == 4
MaxTicks == 1
MaxRaceTasks == 2
MaxRaceOps == 3
MaxRaceTicks == 1
MaxWorkflowOps == 1
MaxCreateOps == 1
MaxCreateTicks == 2
MaxSweepOps == 2
MaxSweepTicks == 1

(***************************************************************************)
(* Closed sets of packages/shared types.                                   *)
(***************************************************************************)
TASK_TYPES == {"LOI", "VALUE", "FRAUD", "LOAN_DOCS"}
URGENCY_LEVELS == {"GREEN", "YELLOW", "ORANGE", "RED"}
TASK_STATUSES ==
  {"OPEN", "CLAIMED", "NEEDS_REVIEW", "MERGE_DONE", "MERGE_APPROVED",
   "COMPLETED", "CANCELLED", "ARCHIVED"}
\* notifyAllTargets sending the direct message twice and no channel post.
TARGETS_DmTwice == <<"IN_APP", "DM", "DM">>
TARGETS == <<"IN_APP", "DM", "CHANNEL">>

NoTime == 0 - 1
NoUser == "none"

\* The identities of the mock directory; roles as in the smoke test's headers.
UserRoles ==
  [u \in {"loan-officer-1", "loan-officer-2", "file-checker-1", "admin-1"} |->
     CASE u = "file-checker-1" -> {"LOAN_OFFICER", "FILE_CHECKER"}
       [] u = "admin-1" -> {"LOAN_OFFICER", "ADMIN"}
       [] OTHER -> {"LOAN_OFFICER"}]
Users == DOMAIN UserRoles

(***************************************************************************)
(* Workflow engine.                                                        *)
(***************************************************************************)
LOAN_DOCS_FLOW ==
  <<"OPEN", "CLAIMED", "MERGE_DONE", "MERGE_APPROVED", "COMPLETED", "ARCHIVED">>
STANDARD_FLOW == <<"OPEN", "CLAIMED", "COMPLETED", "ARCHIVED">>

\* ALWAYS_ALLOWED with a needs-review task allowed to stay in needs-review.
ALWAYS_ALLOWED_SelfEdge(status) ==
  CASE status = "OPEN" -> <<"CANCELLED">>
    [] status = "CLAIMED" -> <<"NEEDS_REVIEW", "CANCELLED">>
    [] status = "NEEDS_REVIEW" -> <<"NEEDS_REVIEW", "CLAIMED", "COMPLETED", "CANCELLED">>
    [] status = "COMPLETED" -> <<"NEEDS_REVIEW", "OPEN">>
    [] status = "ARCHIVED" -> <<"OPEN">>
    [] status = "MERGE_DONE" -> <<"CANCELLED">>
    [] status = "MERGE_APPROVED" -> <<"CANCELLED">>
    [] OTHER -> <<>>

ALWAYS_ALLOWED(status) ==
  CASE status = "OPEN" -> <<"CANCELLED">>
    [] status = "CLAIMED" -> <<"NEEDS_REVIEW", "CANCELLED">>
    [] status = "NEEDS_REVIEW" -> <<"CLAIMED", "COMPLETED", "CANCELLED">>
    [] status = "COMPLETED" -> <<"NEEDS_REVIEW", "OPEN">>
    [] status = "ARCHIVED" -> <<"OPEN">>
    [] status = "MERGE_DONE" -> <<"CANCELLED">>
    [] status = "MERGE_APPROVED" -> <<"CANCELLED">>
    [] OTHER -> <<>>

DEFAULT_CONFIG ==
  [businessStartHour |-> 8, businessStartMinute |-> 30,
   businessEndHour |-> 17, businessEndMinute |-> 30,
   archiveRetentionDays |-> 90]

Range(s) == {s[i] : i \in DOMAIN s}

\* Array.prototype.indexOf, 1-based; 0 when absent.
IndexOf(s, x) ==
  IF \E i \in DOMAIN s : s[i] = x
    THEN CHOOSE i \in DOMAIN s : s[i] = x /\ \A j \in 1..(i - 1) : s[j] # x
    ELSE 0

\* nextFlowStatuses with the ALWAYS_ALLOWED side-edges left out.
nextFlowStatuses_ForwardOnly(task) ==
  LET flow == IF task.taskType = "LOAN_DOCS" THEN LOAN_DOCS_FLOW ELSE STANDARD_FLOW
      index == IndexOf(flow, task.status)
  IN IF index >= 1 /\ index < Len(flow) THEN {flow[index + 1]} ELSE {}

nextFlowStatuses(task) ==
  LET flow == IF task.taskType = "LOAN_DOCS" THEN LOAN_DOCS_FLOW ELSE STANDARD_FLOW
      index == IndexOf(flow, task.status)
      next == IF index >= 1 /\ index < Len(flow) THEN <<flow[index + 1]>> ELSE <<>>
      extra == ALWAYS_ALLOWED(task.status)
  IN Range(next \o extra)

hasRole(user, role) == role \in UserRoles[user]

\* canClaimTask with an admin allowed to claim any open task.
canClaimTask_AdminOverride(task, user) ==
  IF task.status # "OPEN" THEN FALSE
  ELSE IF task.taskType = "FRAUD" /\ ~hasRole(user, "FILE_CHECKER") /\ ~hasRole(user, "ADMIN")
    THEN FALSE
  ELSE TRUE

canClaimTask(task, user) ==
  IF task.status # "OPEN" THEN FALSE
  ELSE IF task.taskType = "FRAUD" /\ ~hasRole(user, "FILE_CHECKER") THEN FALSE
  ELSE TRUE

\* canUnclaimTask with the creator allowed as well.
canUnclaimTask_CreatorToo(task, user) ==
  IF task.status # "CLAIMED" THEN FALSE
  ELSE task.assignee = user \/ task.createdBy = user \/ hasRole(user, "ADMIN")

canUnclaimTask(task, user) ==
  IF task.status # "CLAIMED" THEN FALSE
  ELSE task.assignee = user \/ hasRole(user, "ADMIN")

\* canCancelTask with the assignee allowed as well.
canCancelTask_AssigneeToo(task, user) ==
  task.createdBy = user \/ task.assignee = user \/ hasRole(user, "ADMIN")

canCancelTask(task, user) ==
  task.createdBy = user \/ hasRole(user, "ADMIN")

\* canMoveToNeedsReview with an admin allowed as well.
canMoveToNeedsReview_AdminToo(task, user) ==
  IF task.status # "CLAIMED" /\ task.status # "COMPLETED" THEN FALSE
  ELSE task.createdBy = user \/ task.assignee = user \/ hasRole(user, "ADMIN")

canMoveToNeedsReview(task, user) ==
  IF task.status # "CLAIMED" /\ task.status # "COMPLETED" THEN FALSE
  ELSE task.createdBy = user \/ task.assignee = user

\* canMoveNeedsReview without the admin clause.
canMoveNeedsReview_NoAdmin(task, user) ==
  IF task.status # "NEEDS_REVIEW" THEN FALSE
  ELSE task.createdBy = user \/ task.assignee = user

canMoveNeedsReview(task, user) ==
  IF task.status # "NEEDS_REVIEW" THEN FALSE
  ELSE task.createdBy = user \/ task.assignee = user \/ hasRole(user, "ADMIN")

\* canCompleteTask without the file-checker requirement of FRAUD tasks.
canCompleteTask_NoRoleCheck(task, user) ==
  IF task.status \in {"CLAIMED", "MERGE_APPROVED", "NEEDS_REVIEW"}
    THEN task.createdBy = user \/ task.assignee = user \/ hasRole(user, "ADMIN")
  ELSE FALSE

canCompleteTask(task, user) ==
  IF task.taskType = "FRAUD" /\ ~hasRole(user, "FILE_CHECKER") THEN FALSE
  ELSE IF task.status \in {"CLAIMED", "MERGE_APPROVED", "NEEDS_REVIEW"}
    THEN task.createdBy = user \/ task.assignee = user \/ hasRole(user, "ADMIN")
  ELSE FALSE

\* The reason strings of canTransitionStatus; the invalid-edge reason is the
\* template `Cannot move from ${task.status} to ${next}`.
InvalidEdgeReason(from, to) == <<"Cannot move from", from, "to", to>>
CancelReason == <<"Only the task creator or admin can cancel a task">>
NeedsReviewReason == <<"Only assignee or creator can mark as needs review">>
MoveNeedsReviewReason == <<"Only assignee, creator, or admin can move a needs review task">>
CompleteReason == <<"User cannot complete this task">>
NoReason == <<>>

\* canTransitionStatus with the cancel permission tested before the edge.
canTransitionStatus_PermissionFirst(task, next, user) ==
  IF next = "CANCELLED" /\ ~canCancelTask(task, user)
    THEN [ok |-> FALSE, reason |-> CancelReason]
  ELSE IF next \notin nextFlowStatuses(task)
    THEN [ok |-> FALSE, reason |-> InvalidEdgeReason(task.status, next)]
  ELSE IF next = "NEEDS_REVIEW" /\ ~canMoveToNeedsReview(task, user)
    THEN [ok |-> FALSE, reason |-> NeedsReviewReason]
  ELSE IF next \in {"CLAIMED", "COMPLETED"} /\ task.status = "NEEDS_REVIEW"
          /\ ~canMoveNeedsReview(task, user)
    THEN [ok |-> FALSE, reason |-> MoveNeedsReviewReason]
  ELSE IF next = "COMPLETED" /\ ~canCompleteTask(task, user)
    THEN [ok |-> FALSE, reason |-> CompleteReason]
  ELSE [ok |-> TRUE, reason |-> NoReason]

\* canTransitionStatus with the merge stages and ARCHIVED kept for the
\* assignee or an admin.
canTransitionStatus_GatedMergeAndArchive(task, next, user) ==
  IF next \notin nextFlowStatuses(task)
    THEN [ok |-> FALSE, reason |-> InvalidEdgeReason(task.status, next)]
  ELSE IF next = "CANCELLED" /\ ~canCancelTask(task, user)
    THEN [ok |-> FALSE, reason |-> CancelReason]
  ELSE IF next = "NEEDS_REVIEW" /\ ~canMoveToNeedsReview(task, user)
    THEN [ok |-> FALSE, reason |-> NeedsReviewReason]
  ELSE IF next \in {"CLAIMED", "COMPLETED"} /\ task.status = "NEEDS_REVIEW"
          /\ ~canMoveNeedsReview(task, user)
    THEN [ok |-> FALSE, reason |-> MoveNeedsReviewReason]
  ELSE IF next = "COMPLETED" /\ ~canCompleteTask(task, user)
    THEN [ok |-> FALSE, reason |-> CompleteReason]
  ELSE IF next \in {"MERGE_DONE", "MERGE_APPROVED", "ARCHIVED"}
          /\ ~(task.assignee = user \/ hasRole(user, "ADMIN"))
    THEN [ok |-> FALSE, reason |-> CompleteReason]
  ELSE [ok |-> TRUE, reason |-> NoReason]

canTransitionStatus(task, next, user) ==
  IF next \notin nextFlowStatuses(task)
    THEN [ok |-> FALSE, reason |-> InvalidEdgeReason(task.status, next)]
  ELSE IF next = "CANCELLED" /\ ~canCancelTask(task, user)
    THEN [ok |-> FALSE, reason |-> CancelReason]
  ELSE IF next = "NEEDS_REVIEW" /\ ~canMoveToNeedsReview(task, user)
    THEN [ok |-> FALSE, reason |-> NeedsReviewReason]
  ELSE IF next \in {"CLAIMED", "COMPLETED"} /\ task.status = "NEEDS_REVIEW"
          /\ ~canMoveNeedsReview(task, user)
    THEN [ok |-> FALSE, reason |-> MoveNeedsReviewReason]
  ELSE IF next = "COMPLETED" /\ ~canCompleteTask(task, user)
    THEN [ok |-> FALSE, reason |-> CompleteReason]
  ELSE [ok |-> TRUE, reason |-> NoReason]

(***************************************************************************)
(* Calendar / due-date engine.  The business timezone is resolved as a     *)
(* fixed offset from UTC; a calendar date is its day number.               *)
(***************************************************************************)
MinutesPerHour == 60
MinutesPerDay == 24 * MinutesPerHour
WeekdayNames == <<"Mon", "Tue", "Wed", "Thu", "Fri", "Sat", "Sun">>

\* Intl "shortOffset" of America/Los_Angeles, e.g. GMT-8, parsed to minutes.
zonedOffsetMinutes(date) == 0 - (8 * MinutesPerHour)

zonedParts(date) ==
  LET local == date + zonedOffsetMinutes(date)
  IN [day |-> local \div MinutesPerDay,
      weekday |-> WeekdayNames[((local \div MinutesPerDay) % 7) + 1],
      hour |-> (local % MinutesPerDay) \div MinutesPerHour,
      minute |-> local % MinutesPerHour]

isWeekend(dayName) == dayName = "Sat" \/ dayName = "Sun"

\* isBusinessDate with no weekend.
isBusinessDate_EveryDay(day) == day = day

isBusinessDate(day) == ~isWeekend(WeekdayNames[(day % 7) + 1])

RECURSIVE SkipToBusinessDate(_)
SkipToBusinessDate(cursor) ==
  IF isBusinessDate(cursor) THEN cursor ELSE SkipToBusinessDate(cursor + 1)

RECURSIVE nextBusinessDate(_, _)
nextBusinessDate(day, count) ==
  IF count > 0
    THEN nextBusinessDate(day + 1, IF isBusinessDate(day + 1) THEN count - 1 ELSE count)
    ELSE SkipToBusinessDate(day)

zonedToUtcIso(day, hour, minute) ==
  LET guessUtc == day * MinutesPerDay + hour * MinutesPerHour + minute
  IN guessUtc - zonedOffsetMinutes(guessUtc)

\* computeDueAtFromUrgency with ORANGE due at the end of the business day.
computeDueAtFromUrgency_OrangeEndOfDay(urgency, instant, config) ==
  LET localNow == zonedParts(instant)
      endOf(day) == zonedToUtcIso(day, config.businessEndHour, config.businessEndMinute)
  IN IF urgency = "RED" THEN instant
     ELSE IF urgency \in {"ORANGE", "YELLOW"} /\ ~isWeekend(localNow.weekday)
       THEN endOf(localNow.day)
     ELSE endOf(nextBusinessDate(localNow.day, 1))

computeDueAtFromUrgency(urgency, instant, config) ==
  LET localNow == zonedParts(instant)
      nowMinutes == localNow.hour * MinutesPerHour + localNow.minute
      endMinutes == config.businessEndHour * MinutesPerHour + config.businessEndMinute
      endOf(day) == zonedToUtcIso(day, config.businessEndHour, config.businessEndMinute)
  IN IF urgency = "RED" THEN instant
     ELSE IF urgency = "ORANGE" THEN instant + MinutesPerHour
     ELSE IF urgency = "YELLOW"
       THEN IF ~isWeekend(localNow.weekday) /\ nowMinutes <= endMinutes
              THEN endOf(localNow.day)
              ELSE endOf(nextBusinessDate(localNow.day, 1))
     ELSE IF ~isWeekend(localNow.weekday)
       THEN endOf(nextBusinessDate(localNow.day, 1))
       ELSE endOf(nextBusinessDate(localNow.day, 0))

\* computeDefaultDueAt by task type: LOI and loan docs due one hour from creation.
computeDefaultDueAt_ByTaskType(taskType, instant, urgency, config) ==
  IF taskType \in {"LOI", "LOAN_DOCS"} THEN instant + MinutesPerHour
  ELSE computeDueAtFromUrgency(urgency, instant, config)

computeDefaultDueAt(taskType, instant, urgency, config) ==
  computeDueAtFromUrgency(urgency, instant, config)

(***************************************************************************)
(* Sweep eligibility predicates.                                           *)
(***************************************************************************)
isOverdue(task, instant) ==
  IF task.status \in {"COMPLETED", "ARCHIVED", "CANCELLED"} THEN FALSE
  ELSE task.dueAt < instant

\* shouldPurgeArchived purging from the retention age on.
shouldPurgeArchived_AtRetention(task, instant, retentionDays) ==
  IF task.status # "ARCHIVED" \/ task.archivedAt = NoTime THEN FALSE
  ELSE instant - task.archivedAt >= retentionDays * MinutesPerDay

shouldPurgeArchived(task, instant, retentionDays) ==
  IF task.status # "ARCHIVED" \/ task.archivedAt = NoTime THEN FALSE
  ELSE instant - task.archivedAt > retentionDays * MinutesPerDay

\* isWithinBusinessHours with the end minute left out.
isWithinBusinessHours_EndExclusive(instant, config) ==
  LET parts == zonedParts(instant)
      minutes == parts.hour * MinutesPerHour + parts.minute
      start == config.businessStartHour * MinutesPerHour + config.businessStartMinute
      end == config.businessEndHour * MinutesPerHour + config.businessEndMinute
  IN IF isWeekend(parts.weekday) THEN FALSE
     ELSE minutes >= start /\ minutes < end

isWithinBusinessHours(instant, config) ==
  LET parts == zonedParts(instant)
      minutes == parts.hour * MinutesPerHour + parts.minute
      start == config.businessStartHour * MinutesPerHour + config.businessStartMinute
      end == config.businessEndHour * MinutesPerHour + config.businessEndMinute
  IN IF isWeekend(parts.weekday) THEN FALSE
     ELSE minutes >= start /\ minutes <= end

\* shouldSendReminder without the look at lastReminderAt.
shouldSendReminder_NoThrottle(task, instant, config) ==
  IF ~isOverdue(task, instant) THEN FALSE
  ELSE isWithinBusinessHours(instant, config)

shouldSendReminder(task, instant, config) ==
  IF ~isOverdue(task, instant) THEN FALSE
  ELSE IF task.lastReminderAt # NoTime /\ instant - task.lastReminderAt < MinutesPerHour
    THEN FALSE
  ELSE isWithinBusinessHours(instant, config)

ACTIVE_STATUSES == {"OPEN", "CLAIMED", "NEEDS_REVIEW", "MERGE_DONE", "MERGE_APPROVED"}
AutoArchiveAfter == 14 * MinutesPerDay

(***************************************************************************)
(* State.                                                                  *)
(***************************************************************************)
Procs == {"r1", "r2"}
ClockSteps == {MinutesPerHour, 15 * MinutesPerDay, 91 * MinutesPerDay}
\* Monday 09:00 in the business timezone.
StartNow == 17 * MinutesPerHour
CreateTypes == {"LOI", "FRAUD", "LOAN_DOCS"}
CreateUrgencies == {"RED", "omitted"}
CreateUsers == {"loan-officer-1", "admin-1"}

VARIABLES
  now,      \* the wall clock read by new Date()
  budget,   \* what the run may still do: [ops, ticks, tasks]
  doc,      \* the JSON document: [tasks, history]
  chain,    \* the store's promise chain: the operations not yet settled, oldest first
  req,      \* per request slot: the running (or last finished) service call
  sweep,    \* the scheduler's runMaintenance call, running or last finished
  nextId,   \* the next fresh task id (uuid)
  notified, \* the reminders the notifier has delivered: [taskId, target, at, status]
  calc      \* a computeDueAtFromUrgency call on its own: [urgency, date, result]

vars == <<now, budget, doc, chain, req, sweep, nextId, notified, calc>>

Null == [id |-> 0]

\* A Date with its seconds: minutes since the epoch of the model, and the
\* seconds within that minute.
NoDate == [minute |-> NoTime, second |-> 0]
NoCalc == [urgency |-> "none", date |-> NoDate, result |-> NoDate]
INITIAL == [tasks |-> <<>>, history |-> <<>>]

\* CreateTaskInput's optional fields left out.
NoInput == [urgency |-> "omitted", dueAt |-> NoTime]

IdleReq ==
  [pc |-> "idle", op |-> "none", user |-> NoUser, taskId |-> 0, next |-> "none",
   input |-> NoInput,
   read |-> Null, task |-> Null, target |-> 0, outcome |-> "none",
   reason |-> NoReason, committed |-> FALSE, events |-> <<>>]

IdleSweep ==
  [pc |-> "idle", now |-> 0, tasks |-> <<>>, i |-> 1, cur |-> Null,
   updatedTasks |-> <<>>, retained |-> <<>>, reminded |-> 0, autoArchived |-> 0,
   purged |-> 0, target |-> 0, outcome |-> "none", committed |-> FALSE,
   events |-> <<>>, last |-> [at |-> NoTime, outcome |-> "none"]]

Init ==
  /\ now = StartNow
  /\ budget = [ops |-> MaxOps, ticks |-> MaxTicks, tasks |-> MaxTasks]
  /\ doc = INITIAL
  /\ chain = <<>>
  /\ req = [p \in Procs |-> IdleReq]
  /\ sweep = IdleSweep
  /\ nextId = 1
  /\ notified = <<>>
  /\ calc = NoCalc

(***************************************************************************)
(* Store.                                                                  *)
(***************************************************************************)
\* Array.prototype.find on data.tasks.
findTask(d, taskId) ==
  LET hits == SelectSeq(d.tasks, LAMBDA t : t.id = taskId)
  IN IF Len(hits) > 0 THEN hits[1] ELSE Null

\* Stable sort, descending updatedAt.
RECURSIVE SortDesc(_)
SortDesc(s) ==
  IF Len(s) <= 1 THEN s
  ELSE LET rest == SortDesc(SubSeq(s, 1, Len(s) - 1))
           x == s[Len(s)]
           before == SelectSeq(rest, LAMBDA t : t.updatedAt >= x.updatedAt)
           after == SelectSeq(rest, LAMBDA t : t.updatedAt < x.updatedAt)
       IN before \o <<x>> \o after

allTasks(d) == SortDesc(d.tasks)

allHistoryForTask(d, taskId) == SelectSeq(d.history, LAMBDA e : e.taskId = taskId)

\* upsertTask that pushes the task without looking for its id.
upsertTask_AlwaysPush(data, task, event) ==
  [tasks |-> Append(data.tasks, task), history |-> Append(data.history, event)]

\* The read-modify-write bodies handed to enqueue.
upsertTask(data, task, event) ==
  LET index == IndexOf([i \in DOMAIN data.tasks |-> data.tasks[i].id], task.id)
  IN [tasks |-> IF index >= 1 THEN [data.tasks EXCEPT ![index] = task]
                ELSE Append(data.tasks, task),
      history |-> Append(data.history, event)]

\* replaceTasks that keeps only the history of the tasks it writes.
replaceTasks_PurgesHistory(data, tasks) ==
  [tasks |-> tasks,
   history |-> SelectSeq(data.history,
                 LAMBDA e : \E k \in DOMAIN tasks : tasks[k].id = e.taskId)]

replaceTasks(data, tasks) == [data EXCEPT !.tasks = tasks]

UpsertOp(owner, task, event) ==
  [owner |-> owner, kind |-> "upsert", task |-> task, event |-> event,
   tasks |-> <<>>, running |-> FALSE, data |-> INITIAL]

ReplaceOp(owner, tasks) ==
  [owner |-> owner, kind |-> "replace", task |-> Null, event |-> Null,
   tasks |-> tasks, running |-> FALSE, data |-> INITIAL]

\* enqueue that runs the newest operation first.
enqueue_NewestFirst(queue, operation) == <<operation>> \o queue

\* this.chain = this.chain.then(operation, operation)
enqueue(queue, operation) == Append(queue, operation)

makeHistory(taskId, user, action, detail) ==
  [taskId |-> taskId, action |-> action, detail |-> detail, at |-> now, by |-> user]

(***************************************************************************)
(* Sinks: SseHub.broadcast and NotificationProvider.notify.                *)
(***************************************************************************)
BroadcastEvent(task, committed) ==
  [ch |-> "broadcast", type |-> "task.changed", target |-> "none", task |-> task,
   actor |-> NoUser, committed |-> committed]

NotifyEvent(type, task, actor, target, committed) ==
  [ch |-> "notify", type |-> type, target |-> target, task |-> task,
   actor |-> actor, committed |-> committed]

NotificationType(r) ==
  CASE r.op = "create" -> "TASK_CREATED"
    [] r.op = "claim" -> "TASK_CLAIMED"
    [] r.op = "unclaim" -> "TASK_UNCLAIMED"
    [] OTHER -> IF r.next = "ARCHIVED" THEN "TASK_ARCHIVED" ELSE "TASK_STATUS_CHANGED"

(***************************************************************************)
(* Task service: request handlers.  A handler runs from its call to its    *)
(* first await on the store queue in one step; the queued store operation  *)
(* and each awaited notification delivery are later steps.                 *)
(***************************************************************************)
NotFoundReason == <<"Task not found">>
ClaimReason == <<"Task cannot be claimed by this user">>
UnclaimReason == <<"Only assignee or admin can unclaim this task">>
WriteFailed == <<"store write failed">>
NotifyFailed == <<"notification delivery failed">>

CanStart(p) == req[p].pc = "idle" /\ budget.ops > 0

\* Rejected with the task broadcast before the throw.
Rejected_Broadcasts(p, op, user, taskId, next, read, reason) ==
  /\ req' = [req EXCEPT ![p] =
       [IdleReq EXCEPT !.pc = "done", !.op = op, !.user = user, !.taskId = taskId,
                       !.next = next, !.read = read, !.outcome = "rejected",
                       !.reason = reason,
                       !.events = <<BroadcastEvent(read, FALSE)>>]]
  /\ UNCHANGED <<chain, budget>>

\* throw new Error(reason): the call ends before anything is enqueued.
Rejected(p, op, user, taskId, next, read, reason) ==
  /\ req' = [req EXCEPT ![p] =
       [IdleReq EXCEPT !.pc = "done", !.op = op, !.user = user, !.taskId = taskId,
                       !.next = next, !.read = read, !.outcome = "rejected",
                       !.reason = reason]]
  /\ UNCHANGED <<chain, budget>>

\* Upserting with the due date recomputed at every update.
Upserting_RecomputesDueAt(p, op, user, taskId, next, read, updated, event) ==
  LET redone == IF op = "create" THEN updated
                ELSE [updated EXCEPT !.dueAt =
                        computeDefaultDueAt(updated.taskType, now, updated.urgency,
                                            DEFAULT_CONFIG)]
  IN /\ req' = [req EXCEPT ![p] =
          [IdleReq EXCEPT !.pc = "write", !.op = op, !.user = user, !.taskId = taskId,
                          !.next = next, !.read = read, !.task = redone]]
     /\ chain' = enqueue(chain, UpsertOp(p, redone, event))
     /\ budget' = [budget EXCEPT !.ops = @ - 1,
                                 !.tasks = IF op = "create" THEN @ - 1 ELSE @]

\* await this.store.upsertTask(updated, event)
Upserting(p, op, user, taskId, next, read, updated, event) ==
  /\ req' = [req EXCEPT ![p] =
       [IdleReq EXCEPT !.pc = "write", !.op = op, !.user = user, !.taskId = taskId,
                       !.next = next, !.read = read, !.task = updated]]
  /\ chain' = enqueue(chain, UpsertOp(p, updated, event))
  /\ budget' = [budget EXCEPT !.ops = @ - 1,
                              !.tasks = IF op = "create" THEN @ - 1 ELSE @]

requireTask(taskId) == findTask(doc, taskId)

NewTask(id, taskType, urgency, dueAt, user) ==
  [id |-> id, taskType |-> taskType, dueAt |-> dueAt, urgency |-> urgency,
   status |-> "OPEN", createdAt |-> now, updatedAt |-> now, createdBy |-> user,
   assignee |-> NoUser, archivedAt |-> NoTime, completedAt |-> NoTime,
   cancelledAt |-> NoTime, lastReminderAt |-> NoTime]

createTask(p, taskType, urgencyIn, dueAtIn, user) ==
  /\ CanStart(p)
  /\ budget.tasks > 0
  /\ LET urgency == IF urgencyIn = "omitted" THEN "GREEN" ELSE urgencyIn
         dueAt == IF dueAtIn # NoTime THEN dueAtIn
                  ELSE computeDefaultDueAt(taskType, now, urgency, DEFAULT_CONFIG)
         task == NewTask(nextId, taskType, urgency, dueAt, user)
         event == makeHistory(task.id, user, "TASK_CREATED", <<"Created", taskType>>)
     IN /\ req' = [req EXCEPT ![p] =
              [IdleReq EXCEPT !.pc = "write", !.op = "create", !.user = user,
                              !.taskId = task.id, !.task = task,
                              !.input = [urgency |-> urgencyIn, dueAt |-> dueAtIn]]]
        /\ chain' = enqueue(chain, UpsertOp(p, task, event))
        /\ budget' = [budget EXCEPT !.ops = @ - 1, !.tasks = @ - 1]
  /\ nextId' = nextId + 1
  /\ UNCHANGED <<now, doc, sweep, notified, calc>>

claimTask(p, taskId, user) ==
  /\ CanStart(p)
  /\ LET task == requireTask(taskId)
     IN IF task = Null
          THEN Rejected(p, "claim", user, taskId, "none", Null, NotFoundReason)
        ELSE IF ~canClaimTask(task, user)
          THEN Rejected(p, "claim", user, taskId, "none", task, ClaimReason)
        ELSE Upserting(p, "claim", user, taskId, "none", task,
               [task EXCEPT !.status = "CLAIMED", !.assignee = user, !.updatedAt = now],
               makeHistory(task.id, user, "TASK_CLAIMED", <<"Claimed by", user>>))
  /\ UNCHANGED <<now, doc, sweep, nextId, notified, calc>>

unclaimTask(p, taskId, user) ==
  /\ CanStart(p)
  /\ LET task == requireTask(taskId)
     IN IF task = Null
          THEN Rejected(p, "unclaim", user, taskId, "none", Null, NotFoundReason)
        ELSE IF ~canUnclaimTask(task, user)
          THEN Rejected(p, "unclaim", user, taskId, "none", task, UnclaimReason)
        ELSE Upserting(p, "unclaim", user, taskId, "none", task,
               [task EXCEPT !.status = "OPEN", !.assignee = NoUser, !.updatedAt = now],
               makeHistory(task.id, user, "TASK_UNCLAIMED", <<"Returned to open queue by", user>>))
  /\ UNCHANGED <<now, doc, sweep, nextId, notified, calc>>

\* transitionStatus that sets the status and updatedAt only.
transitionStatus_NoStamps(p, taskId, next, user) ==
  /\ CanStart(p)
  /\ LET task == requireTask(taskId)
     IN IF task = Null
          THEN Rejected(p, "transition", user, taskId, next, Null, NotFoundReason)
        ELSE LET access == canTransitionStatus(task, next, user)
             IN IF ~access.ok
                  THEN Rejected(p, "transition", user, taskId, next, task, access.reason)
                ELSE Upserting(p, "transition", user, taskId, next, task,
                       [task EXCEPT
                          !.status = next,
                          !.updatedAt = now],
                       makeHistory(task.id, user, "TASK_STATUS_CHANGED",
                                   <<task.status, "->", next>>))
  /\ UNCHANGED <<now, doc, sweep, nextId, notified, calc>>

transitionStatus(p, taskId, next, user) ==
  /\ CanStart(p)
  /\ LET task == requireTask(taskId)
     IN IF task = Null
          THEN Rejected(p, "transition", user, taskId, next, Null, NotFoundReason)
        ELSE LET access == canTransitionStatus(task, next, user)
             IN IF ~access.ok
                  THEN Rejected(p, "transition", user, taskId, next, task, access.reason)
                ELSE Upserting(p, "transition", user, taskId, next, task,
                       [task EXCEPT
                          !.status = next,
                          !.updatedAt = now,
                          !.completedAt = IF next = "COMPLETED" THEN now ELSE @,
                          !.cancelledAt = IF next = "CANCELLED" THEN now ELSE @,
                          !.archivedAt = IF next = "ARCHIVED" THEN now ELSE @],
                       makeHistory(task.id, user, "TASK_STATUS_CHANGED",
                                   <<task.status, "->", next>>))
  /\ UNCHANGED <<now, doc, sweep, nextId, notified, calc>>

\* notifyAllTargets: the delivery to TARGETS[target] settles; the next one is
\* called, or the handler returns.
NotifyDelivered(p) ==
  /\ req[p].pc = "notify"
  /\ LET r == req[p]
     IN req' = [req EXCEPT ![p] =
          IF r.target < Len(TARGETS)
            THEN [r EXCEPT !.target = @ + 1,
                           !.events = Append(@, NotifyEvent(NotificationType(r), r.task,
                                               r.user, TARGETS[r.target + 1], r.committed))]
            ELSE [r EXCEPT !.pc = "done", !.outcome = "ok"]]
  /\ UNCHANGED <<now, budget, doc, chain, sweep, nextId, notified, calc>>

\* NotifyFails that takes the paired history event back out of the store.
NotifyFails_RollsBack(p) ==
  /\ req[p].pc = "notify"
  /\ req' = [req EXCEPT ![p].pc = "done", ![p].outcome = "failed", ![p].reason = NotifyFailed]
  /\ doc' = [doc EXCEPT !.history = SubSeq(@, 1, Len(@) - 1)]
  /\ UNCHANGED <<now, budget, chain, sweep, nextId, notified, calc>>

\* The awaited notify rejects: the handler throws, later targets are skipped.
NotifyFails(p) ==
  /\ req[p].pc = "notify"
  /\ req' = [req EXCEPT ![p].pc = "done", ![p].outcome = "failed", ![p].reason = NotifyFailed]
  /\ UNCHANGED <<now, budget, doc, chain, sweep, nextId, notified, calc>>

\* The response is sent; the call's frame is gone.
Return(p) ==
  /\ req[p].pc = "done"
  /\ req' = [req EXCEPT ![p] = IdleReq]
  /\ UNCHANGED <<now, budget, doc, chain, sweep, nextId, notified, calc>>

(***************************************************************************)
(* Task service: runMaintenance.  The sweep reads the task set, then runs  *)
(* its loop without suspension up to the next awaited reminder delivery.   *)
(***************************************************************************)
SYSTEM_ACTOR == "system"

\* AfterLoop writing the batch whatever the counters.
AfterLoop_AlwaysWrites(s) ==
  LET toPurge == SelectSeq(s.updatedTasks,
                   LAMBDA t : shouldPurgeArchived(t, s.now, DEFAULT_CONFIG.archiveRetentionDays))
      retained == SelectSeq(s.updatedTasks,
                   LAMBDA t : ~\E k \in DOMAIN toPurge : toPurge[k].id = t.id)
  IN [s EXCEPT !.pc = "write", !.retained = retained, !.purged = Len(toPurge)]

\* Lines 223-231: purge filter, then the batch write only if a counter is nonzero.
AfterLoop(s) ==
  LET toPurge == SelectSeq(s.updatedTasks,
                   LAMBDA t : shouldPurgeArchived(t, s.now, DEFAULT_CONFIG.archiveRetentionDays))
      retained == SelectSeq(s.updatedTasks,
                   LAMBDA t : ~\E k \in DOMAIN toPurge : toPurge[k].id = t.id)
  IN IF Len(toPurge) > 0 \/ s.autoArchived > 0 \/ s.reminded > 0
       THEN [s EXCEPT !.pc = "write", !.retained = retained, !.purged = Len(toPurge)]
       ELSE [s EXCEPT !.pc = "done", !.outcome = "ok", !.retained = retained,
                      !.purged = Len(toPurge)]

\* Lines 186-221: one iteration per task; stops at the await of line 212.
RECURSIVE RunLoop(_)
RunLoop(s) ==
  IF s.i > Len(s.tasks) THEN AfterLoop(s)
  ELSE
    LET task == s.tasks[s.i]
        reference == IF task.completedAt # NoTime THEN task.completedAt
                     ELSE IF task.cancelledAt # NoTime THEN task.cancelledAt
                     ELSE task.updatedAt
        archive == /\ task.status \in {"COMPLETED", "CANCELLED"}
                   /\ s.now - reference > AutoArchiveAfter
        archived == IF archive
                      THEN [task EXCEPT !.status = "ARCHIVED", !.archivedAt = s.now,
                                        !.updatedAt = s.now]
                      ELSE task
        s1 == [s EXCEPT !.autoArchived = IF archive THEN @ + 1 ELSE @]
    IN IF /\ archived.status \in ACTIVE_STATUSES
          /\ shouldSendReminder(archived, s.now, DEFAULT_CONFIG)
          /\ isOverdue(archived, s.now)
         THEN LET reminder == [archived EXCEPT !.lastReminderAt = s.now, !.updatedAt = s.now]
              IN [s1 EXCEPT !.reminded = @ + 1, !.cur = reminder, !.pc = "notify",
                            !.target = 1,
                            !.events = Append(@, NotifyEvent("TASK_REMINDER", reminder,
                                                SYSTEM_ACTOR, TARGETS[1], s.committed))]
         ELSE RunLoop([s1 EXCEPT !.i = @ + 1, !.updatedTasks = Append(@, archived)])

\* The sweep as it stands at its next suspension point, with its batch write
\* enqueued when it got that far.
SweepAdvance(s) ==
  /\ sweep' = s
  /\ chain' = IF s.pc = "write" THEN enqueue(chain, ReplaceOp("sweep", s.retained)) ELSE chain

runMaintenance ==
  /\ sweep.pc = "idle"
  /\ budget.ops > 0
  /\ SweepAdvance(RunLoop([sweep EXCEPT !.now = now, !.tasks = allTasks(doc)]))
  /\ budget' = [budget EXCEPT !.ops = @ - 1]
  /\ UNCHANGED <<now, doc, req, nextId, notified, calc>>

SweepNotifyDelivered ==
  /\ sweep.pc = "notify"
  /\ IF sweep.target < Len(TARGETS)
       THEN SweepAdvance([sweep EXCEPT
              !.target = @ + 1,
              !.events = Append(@, NotifyEvent("TASK_REMINDER", sweep.cur, SYSTEM_ACTOR,
                                               TARGETS[sweep.target + 1], sweep.committed))])
       ELSE SweepAdvance(RunLoop([sweep EXCEPT
              !.i = @ + 1, !.updatedTasks = Append(@, sweep.cur), !.cur = Null,
              !.target = 0, !.pc = "loop"]))
  /\ notified' = Append(notified, [taskId |-> sweep.cur.id, target |-> TARGETS[sweep.target],
                                   at |-> sweep.now, status |-> sweep.cur.status])
  /\ UNCHANGED <<now, budget, doc, req, nextId, calc>>

\* The awaited notify rejects: runMaintenance throws, the scheduler's catch logs it.
SweepNotifyFails ==
  /\ sweep.pc = "notify"
  /\ sweep' = [sweep EXCEPT !.pc = "done", !.outcome = "failed"]
  /\ UNCHANGED <<now, budget, doc, chain, req, nextId, notified, calc>>

\* SweepReturn of a timer that is not re-armed after a failed run.
SweepReturn_OnlyAfterSuccess ==
  /\ sweep.pc = "done"
  /\ sweep.outcome = "ok"
  /\ sweep' = [IdleSweep EXCEPT !.last = [at |-> sweep.now, outcome |-> sweep.outcome]]
  /\ UNCHANGED <<now, budget, doc, chain, req, nextId, notified, calc>>

\* The timer callback has logged the counts (or the failure) and returned;
\* last keeps what it logged: the instant of the run and how it ended.
SweepReturn ==
  /\ sweep.pc = "done"
  /\ sweep' = [IdleSweep EXCEPT !.last = [at |-> sweep.now, outcome |-> sweep.outcome]]
  /\ UNCHANGED <<now, budget, doc, chain, req, nextId, notified, calc>>

(***************************************************************************)
(* Store queue: the head operation of the chain reads the document, then   *)
(* writes it back (or fails); its caller resumes in the same turn.         *)
(***************************************************************************)
\* A queued operation starting its read without waiting for the ones before it.
StoreRead_AnyPosition ==
  /\ \E k \in DOMAIN chain :
       /\ ~chain[k].running
       /\ chain' = [chain EXCEPT ![k].running = TRUE, ![k].data = doc]
  /\ UNCHANGED <<now, budget, doc, req, sweep, nextId, notified, calc>>

StoreRead ==
  /\ chain # <<>>
  /\ ~chain[1].running
  /\ chain' = [chain EXCEPT ![1].running = TRUE, ![1].data = doc]
  /\ UNCHANGED <<now, budget, doc, req, sweep, nextId, notified, calc>>

\* The caller's continuation after its awaited store write: broadcast, then
\* the first notify call (request handlers), or one broadcast per retained task.
Resumed(owner) ==
  IF owner = "sweep"
    THEN /\ sweep' = [sweep EXCEPT
                !.pc = "done", !.outcome = "ok", !.committed = TRUE,
                !.events = @ \o [k \in DOMAIN sweep.retained |->
                                   BroadcastEvent(sweep.retained[k], TRUE)]]
         /\ UNCHANGED req
    ELSE /\ req' = [req EXCEPT ![owner] =
                [@ EXCEPT !.pc = "notify", !.committed = TRUE, !.target = 1,
                          !.events = <<BroadcastEvent(req[owner].task, TRUE),
                                       NotifyEvent(NotificationType(req[owner]),
                                                   req[owner].task, req[owner].user,
                                                   TARGETS[1], TRUE)>>]]
         /\ UNCHANGED sweep

StoreWrite ==
  /\ chain # <<>>
  /\ chain[1].running
  /\ LET op == chain[1]
     IN /\ doc' = IF op.kind = "upsert" THEN upsertTask(op.data, op.task, op.event)
                  ELSE replaceTasks(op.data, op.tasks)
        /\ Resumed(op.owner)
  /\ chain' = Tail(chain)
  /\ UNCHANGED <<now, budget, nextId, notified, calc>>

\* StoreFails with the rejection passed down the chain: every queued
\* operation is skipped and its caller gets the failure.
StoreFails_RejectsAll ==
  /\ chain # <<>>
  /\ chain[1].running
  /\ LET owners == {chain[k].owner : k \in DOMAIN chain}
     IN /\ sweep' = IF "sweep" \in owners
                      THEN [sweep EXCEPT !.pc = "done", !.outcome = "failed"]
                      ELSE sweep
        /\ req' = [p \in Procs |->
                     IF p \in owners
                       THEN [req[p] EXCEPT !.pc = "done", !.outcome = "failed",
                                           !.reason = WriteFailed]
                       ELSE req[p]]
  /\ chain' = <<>>
  /\ UNCHANGED <<now, budget, doc, nextId, notified, calc>>

\* fs.writeFile (or readFile) rejects: the operation's promise rejects, its
\* caller throws; the chain goes on with the next operation.
StoreFails ==
  /\ chain # <<>>
  /\ chain[1].running
  /\ IF chain[1].owner = "sweep"
       THEN /\ sweep' = [sweep EXCEPT !.pc = "done", !.outcome = "failed"]
            /\ UNCHANGED req
       ELSE /\ req' = [req EXCEPT ![chain[1].owner].pc = "done",
                                  ![chain[1].owner].outcome = "failed",
                                  ![chain[1].owner].reason = WriteFailed]
            /\ UNCHANGED sweep
  /\ chain' = Tail(chain)
  /\ UNCHANGED <<now, budget, doc, nextId, notified, calc>>

\* Wall-clock time passes.
Tick(d) ==
  /\ budget.ticks > 0
  /\ now' = now + d
  /\ budget' = [budget EXCEPT !.ticks = @ - 1]
  /\ UNCHANGED <<doc, chain, req, sweep, nextId, notified, calc>>

\* No call is in flight: every request slot and the timer callback are idle
\* and the store queue is empty.
Quiet ==
  /\ chain = <<>>
  /\ sweep.pc = "idle"
  /\ \A p \in Procs : req[p].pc = "idle"

\* Progress of whatever is in flight.
RequestProgress ==
  \/ \E p \in Procs : NotifyDelivered(p)
  \/ \E p \in Procs : NotifyFails(p)
  \/ \E p \in Procs : Return(p)

SweepProgress ==
  \/ SweepNotifyDelivered
  \/ SweepNotifyFails
  \/ SweepReturn

StoreProgress ==
  \/ StoreRead
  \/ StoreWrite
  \/ StoreFails

Progress == RequestProgress \/ SweepProgress \/ StoreProgress

(***************************************************************************)
(* Spec: the service driven one call at a time (requests and timer ticks   *)
(* arrive when nothing is in flight), over all identities, task types and  *)
(* target statuses.                                                        *)
(***************************************************************************)
Next ==
  \/ \E ty \in CreateTypes, u \in CreateUrgencies, user \in CreateUsers :
       Quiet /\ createTask("r1", ty, u, NoTime, user)
  \/ \E id \in 1..MaxTasks, user \in Users : Quiet /\ claimTask("r1", id, user)
  \/ \E id \in 1..MaxTasks, user \in Users : Quiet /\ unclaimTask("r1", id, user)
  \/ \E id \in 1..MaxTasks, st \in TASK_STATUSES, user \in Users :
       Quiet /\ transitionStatus("r1", id, st, user)
  \/ Quiet /\ runMaintenance
  \/ \E d \in ClockSteps : Quiet /\ Tick(d)
  \/ Progress

Spec == Init /\ [][Next]_vars

(***************************************************************************)
(* SpecRace: overlapping calls.  Two request slots and the timer callback  *)
(* interleave at every await; two loan officers work on LOI tasks.         *)
(***************************************************************************)
RaceUsers == {"loan-officer-1", "loan-officer-2"}

RaceInit ==
  /\ now = StartNow
  /\ budget = [ops |-> MaxRaceOps, ticks |-> MaxRaceTicks, tasks |-> MaxRaceTasks]
  /\ doc = INITIAL
  /\ chain = <<>>
  /\ req = [p \in Procs |-> IdleReq]
  /\ sweep = IdleSweep
  /\ nextId = 1
  /\ notified = <<>>
  /\ calc = NoCalc

RaceNext ==
  \/ \E p \in Procs : createTask(p, "LOI", "RED", NoTime, "loan-officer-1")
  \/ \E p \in Procs, id \in 1..MaxRaceTasks, user \in RaceUsers : claimTask(p, id, user)
  \/ runMaintenance
  \/ \E d \in ClockSteps : Tick(d)
  \/ Progress

SpecRace == RaceInit /\ [][RaceNext]_vars

(***************************************************************************)
(* SpecWorkflow: the workflow rules on every task value.  The store holds  *)
(* one task of any type and status, put there as the scheduler test does   *)
(* (makeTask, then replaceTasks), and calls arrive one at a time.          *)
(***************************************************************************)
WorkflowCreators == {"loan-officer-1", "admin-1"}
WorkflowAssignees == {NoUser, "loan-officer-2", "file-checker-1"}

makeTask(taskType, status, createdBy, assignee) ==
  [id |-> 1, taskType |-> taskType, dueAt |-> StartNow, urgency |-> "GREEN",
   status |-> status, createdAt |-> StartNow, updatedAt |-> StartNow,
   createdBy |-> createdBy, assignee |-> assignee,
   archivedAt |-> IF status = "ARCHIVED" THEN StartNow ELSE NoTime,
   completedAt |-> IF status = "COMPLETED" THEN StartNow ELSE NoTime,
   cancelledAt |-> IF status = "CANCELLED" THEN StartNow ELSE NoTime,
   lastReminderAt |-> NoTime]

WorkflowInit ==
  /\ now = StartNow
  /\ budget = [ops |-> MaxWorkflowOps, ticks |-> 0, tasks |-> 0]
  /\ \E ty \in TASK_TYPES, st \in TASK_STATUSES, c \in WorkflowCreators,
        a \in WorkflowAssignees :
       doc = replaceTasks(INITIAL, <<makeTask(ty, st, c, a)>>)
  /\ chain = <<>>
  /\ req = [p \in Procs |-> IdleReq]
  /\ sweep = IdleSweep
  /\ nextId = 2
  /\ notified = <<>>
  /\ calc = NoCalc

WorkflowNext ==
  \/ \E user \in Users : Quiet /\ claimTask("r1", 1, user)
  \/ \E user \in Users : Quiet /\ unclaimTask("r1", 1, user)
  \/ \E st \in TASK_STATUSES, user \in Users : Quiet /\ transitionStatus("r1", 1, st, user)
  \/ RequestProgress
  \/ StoreProgress

SpecWorkflow == WorkflowInit /\ [][WorkflowNext]_vars

(***************************************************************************)
(* SpecCreate: createTask on every input (task type, urgency given or      *)
(* omitted, dueAt given or omitted) at instants inside business hours,     *)
(* after close and on a weekend.                                           *)
(***************************************************************************)
CreateDueAts == {NoTime, StartNow + 3 * MinutesPerDay}
CreateClockSteps == {9 * MinutesPerHour, 5 * MinutesPerDay}

CreateInit ==
  /\ now = StartNow
  /\ budget = [ops |-> MaxCreateOps, ticks |-> MaxCreateTicks, tasks |-> MaxCreateOps]
  /\ doc = INITIAL
  /\ chain = <<>>
  /\ req = [p \in Procs |-> IdleReq]
  /\ sweep = IdleSweep
  /\ nextId = 1
  /\ notified = <<>>
  /\ calc = NoCalc

CreateNext ==
  \/ \E ty \in TASK_TYPES, u \in URGENCY_LEVELS \cup {"omitted"}, due \in CreateDueAts,
        user \in CreateUsers :
       Quiet /\ createTask("r1", ty, u, due, user)
  \/ \E d \in CreateClockSteps : Quiet /\ Tick(d)
  \/ RequestProgress
  \/ StoreProgress

SpecCreate == CreateInit /\ [][CreateNext]_vars

(***************************************************************************)
(* SpecSweep: the scheduler's sweep run against a store loaded the way the *)
(* scheduler test loads it (makeTask with overrides, then replaceTasks),    *)
(* at instants on and around the business-hours boundaries, with time      *)
(* passing between two timer firings.                                      *)
(***************************************************************************)
\* A Monday 00:00 UTC late enough for a task to have aged past retention.
SweepBase == 105 * MinutesPerDay

\* Mon 08:29, 08:30, 09:00, 17:30, 17:31 and Sat 09:00 in the business timezone.
SweepNows ==
  {SweepBase + 16 * MinutesPerHour + 29, SweepBase + 16 * MinutesPerHour + 30,
   SweepBase + 17 * MinutesPerHour, SweepBase + 25 * MinutesPerHour + 30,
   SweepBase + 25 * MinutesPerHour + 31,
   SweepBase + 5 * MinutesPerDay + 17 * MinutesPerHour}

SweepClockSteps == {59, MinutesPerHour}

\* makeTask({...overrides}) of the scheduler test.
makeTaskWith(id, overrides) ==
  [id |-> id, taskType |-> "LOI", dueAt |-> overrides.dueAt, urgency |-> "GREEN",
   status |-> overrides.status, createdAt |-> 0, updatedAt |-> overrides.updatedAt,
   createdBy |-> "loan-officer-1", assignee |-> "loan-officer-2",
   archivedAt |-> overrides.archivedAt, completedAt |-> overrides.completedAt,
   cancelledAt |-> overrides.cancelledAt, lastReminderAt |-> overrides.lastReminderAt]

NoOverrides(status, at) ==
  [status |-> status, dueAt |-> at - 1, updatedAt |-> at - 2 * MinutesPerHour,
   archivedAt |-> NoTime, completedAt |-> NoTime, cancelledAt |-> NoTime,
   lastReminderAt |-> NoTime]

\* Active tasks due just before, at and just after the instant, never
\* reminded or reminded 59 or 60 minutes before it.
ActiveOverrides(at) ==
  {[NoOverrides(st, at) EXCEPT !.dueAt = d, !.lastReminderAt = l] :
     st \in ACTIVE_STATUSES, d \in {at - 1, at, at + 1},
     l \in {NoTime, at - 59, at - MinutesPerHour}}

\* Completed and cancelled tasks whose terminal timestamp is exactly 14 days
\* or one minute more than 14 days old, or absent; and tasks that were
\* reopened after the first terminal status and ended in the other one a day
\* ago (transitionStatus stamps the new timestamp and keeps the old one).
TerminalOverrides(at) ==
  {[NoOverrides("COMPLETED", at) EXCEPT !.completedAt = t, !.updatedAt = t] :
     t \in {at - AutoArchiveAfter, at - AutoArchiveAfter - 1}}
  \cup
  {[NoOverrides("CANCELLED", at) EXCEPT !.cancelledAt = t, !.updatedAt = t] :
     t \in {at - AutoArchiveAfter, at - AutoArchiveAfter - 1}}
  \cup
  {[NoOverrides(st, at) EXCEPT !.updatedAt = t] :
     st \in {"COMPLETED", "CANCELLED"},
     t \in {at - AutoArchiveAfter, at - AutoArchiveAfter - 1}}
  \cup
  {[NoOverrides("CANCELLED", at) EXCEPT
      !.completedAt = at - AutoArchiveAfter - 1, !.cancelledAt = at - MinutesPerDay,
      !.updatedAt = at - MinutesPerDay],
   [NoOverrides("COMPLETED", at) EXCEPT
      !.cancelledAt = at - AutoArchiveAfter - 1, !.completedAt = at - MinutesPerDay,
      !.updatedAt = at - MinutesPerDay]}

\* Archived tasks exactly at and one minute past retention.
ArchivedOverrides(at) ==
  {[NoOverrides("ARCHIVED", at) EXCEPT !.archivedAt = t, !.updatedAt = t] :
     t \in {at - DEFAULT_CONFIG.archiveRetentionDays * MinutesPerDay,
            at - DEFAULT_CONFIG.archiveRetentionDays * MinutesPerDay - 1}}

\* The second task of the store, when there is one.
SecondOverrides(at) ==
  {[NoOverrides("CLAIMED", at) EXCEPT !.updatedAt = at - MinutesPerHour],
   [NoOverrides("COMPLETED", at) EXCEPT !.completedAt = at - 15 * MinutesPerDay,
                                        !.updatedAt = at - 15 * MinutesPerDay],
   [NoOverrides("ARCHIVED", at) EXCEPT !.archivedAt = at - 91 * MinutesPerDay,
                                       !.updatedAt = at - 91 * MinutesPerDay],
   [NoOverrides("ARCHIVED", at) EXCEPT !.archivedAt = at - 40 * MinutesPerDay,
                                       !.updatedAt = at - 40 * MinutesPerDay]}

\* The store file of tasks that createTask once wrote: each has its
\* TASK_CREATED history event, recorded at its createdAt.
StoreOf(tasks) ==
  replaceTasks(
    [INITIAL EXCEPT !.history =
       [k \in DOMAIN tasks |->
          [taskId |-> tasks[k].id, action |-> "TASK_CREATED",
           detail |-> <<"Created", tasks[k].taskType>>, at |-> tasks[k].createdAt,
           by |-> tasks[k].createdBy]]],
    tasks)

SweepInit ==
  /\ now \in SweepNows
  /\ budget = [ops |-> MaxSweepOps, ticks |-> MaxSweepTicks, tasks |-> 0]
  /\ \E o \in ActiveOverrides(now) \cup TerminalOverrides(now) \cup ArchivedOverrides(now) :
       \/ doc = StoreOf(<<makeTaskWith(1, o)>>)
       \/ \E o2 \in SecondOverrides(now) :
            doc = StoreOf(<<makeTaskWith(1, o), makeTaskWith(2, o2)>>)
  /\ chain = <<>>
  /\ req = [p \in Procs |-> IdleReq]
  /\ sweep = IdleSweep
  /\ nextId = 3
  /\ notified = <<>>
  /\ calc = NoCalc

SweepNext ==
  \/ Quiet /\ runMaintenance
  \/ \E d \in SweepClockSteps : Quiet /\ Tick(d)
  \/ SweepProgress
  \/ StoreProgress

SpecSweep == SweepInit /\ [][SweepNext]_vars

\* The sweep's store with an overdue, a stale or an archived task in it.
SweepLiveInit ==
  /\ now \in SweepNows
  /\ budget = [ops |-> MaxSweepOps, ticks |-> MaxSweepTicks, tasks |-> 0]
  /\ \E o \in SecondOverrides(now) :
       \/ doc = StoreOf(<<makeTaskWith(1, o)>>)
       \/ \E o2 \in SecondOverrides(now) :
            doc = StoreOf(<<makeTaskWith(1, o), makeTaskWith(2, o2)>>)
  /\ chain = <<>>
  /\ req = [p \in Procs |-> IdleReq]
  /\ sweep = IdleSweep
  /\ nextId = 3
  /\ notified = <<>>
  /\ calc = NoCalc

\* The interval timer keeps firing, and promises that can settle do settle.
SpecSweepLive ==
  /\ SweepLiveInit /\ [][SweepNext]_vars
  /\ WF_vars(Quiet /\ runMaintenance)
  /\ WF_vars(SweepProgress)
  /\ WF_vars(StoreProgress)

(***************************************************************************)
(* SpecDue: computeDueAtFromUrgency on its own, over every urgency and     *)
(* over instants of every day of a week, on and around midnight and the    *)
(* business-day boundaries, with seconds.                                  *)
(***************************************************************************)
\* Minutes of the local day: 00:00, 08:30, 17:29, 17:30, 17:31, 23:59.
DueLocalMinutes ==
  {0, 8 * MinutesPerHour + 30, 17 * MinutesPerHour + 29, 17 * MinutesPerHour + 30,
   17 * MinutesPerHour + 31, 23 * MinutesPerHour + 59}

DueSeconds == {0, 30, 59}

\* The instants, as Dates, of Monday to Sunday of one week of the business timezone.
DueDates ==
  {[minute |-> d * MinutesPerDay + m - zonedOffsetMinutes(0), second |-> sec] :
     d \in 0..6, m \in DueLocalMinutes, sec \in DueSeconds}

\* computeDueAtFromUrgency on a Date with seconds: RED and ORANGE keep them
\* (toISOString of now, now + 60 minutes); zonedParts reads the hour and the
\* minute only, and zonedToUtcIso builds its result with seconds 0.
computeDueAtFromUrgencyAt(urgency, date, config) ==
  IF urgency = "RED" THEN date
  ELSE IF urgency = "ORANGE" THEN [date EXCEPT !.minute = @ + MinutesPerHour]
  ELSE [minute |-> computeDueAtFromUrgency(urgency, date.minute, config), second |-> 0]

DueInit ==
  /\ now = StartNow
  /\ budget = [ops |-> 0, ticks |-> 0, tasks |-> 0]
  /\ doc = INITIAL
  /\ chain = <<>>
  /\ req = [p \in Procs |-> IdleReq]
  /\ sweep = IdleSweep
  /\ nextId = 1
  /\ notified = <<>>
  /\ \E u \in URGENCY_LEVELS, date \in DueDates :
       calc = [urgency |-> u, date |-> date, result |-> NoDate]

\* The call returns.
computeDueAt ==
  /\ calc.urgency # "none"
  /\ calc.result = NoDate
  /\ calc' = [calc EXCEPT !.result =
                computeDueAtFromUrgencyAt(calc.urgency, calc.date, DEFAULT_CONFIG)]
  /\ UNCHANGED <<now, budget, doc, chain, req, sweep, nextId, notified>>

DueNext == computeDueAt

SpecDue == DueInit /\ [][DueNext]_vars

(***************************************************************************)
(* Properties.                                                             *)
(***************************************************************************)
StoredTasks == Range(doc.tasks)
Finished(p, op) == req[p].pc = "done" /\ req[p].op = op
HistoryActions(taskId) ==
  [k \in DOMAIN allHistoryForTask(doc, taskId) |-> allHistoryForTask(doc, taskId)[k].action]

\* C1: when one claimTask and one runMaintenance on the same store have both
\* finished and the claim succeeded (the task's only mutations being its
\* creation and that claim), the stored task is CLAIMED by the claimer.
C1_NoLostClaim ==
  \A p \in Procs :
    ( /\ Finished(p, "claim")
      /\ req[p].outcome = "ok"
      /\ sweep.pc = "done"
      /\ HistoryActions(req[p].taskId) = <<"TASK_CREATED", "TASK_CLAIMED">> )
    => /\ findTask(doc, req[p].taskId) # Null
       /\ findTask(doc, req[p].taskId).status = "CLAIMED"
       /\ findTask(doc, req[p].taskId).assignee = req[p].user

\* C2: of two finished claimTask calls by different users on the same task,
\* at most one has its claim persisted; when one succeeded the other's claim
\* was never written and the stored assignee is the user who succeeded.
C2_FirstComeFirstServe ==
  \A p \in Procs : \A q \in Procs \ {p} :
    ( /\ Finished(p, "claim") /\ Finished(q, "claim")
      /\ req[p].taskId = req[q].taskId
      /\ req[p].user # req[q].user
      /\ req[p].outcome = "ok" )
    => /\ ~req[q].committed
       /\ findTask(doc, req[p].taskId) # Null
       /\ findTask(doc, req[p].taskId).assignee = req[p].user

\* C3: every stored OPEN task has no assignee, and every stored CLAIMED,
\* NEEDS_REVIEW, MERGE_DONE, MERGE_APPROVED or COMPLETED task has one.
C3_AssigneeInvariant ==
  \A t \in StoredTasks :
    /\ t.status = "OPEN" => t.assignee = NoUser
    /\ t.status \in {"CLAIMED", "NEEDS_REVIEW", "MERGE_DONE", "MERGE_APPROVED", "COMPLETED"}
         => t.assignee # NoUser

\* C4: a stored LOAN_DOCS task is COMPLETED only after a status change to
\* MERGE_DONE and a later one to MERGE_APPROVED were recorded for it.
C4_LoanDocsMergeStages ==
  \A t \in StoredTasks :
    (t.taskType = "LOAN_DOCS" /\ t.status = "COMPLETED")
    => LET h == allHistoryForTask(doc, t.id)
       IN \E i \in DOMAIN h : \E j \in DOMAIN h :
            /\ i < j
            /\ h[i].action = "TASK_STATUS_CHANGED" /\ h[i].detail[3] = "MERGE_DONE"
            /\ h[j].action = "TASK_STATUS_CHANGED" /\ h[j].detail[3] = "MERGE_APPROVED"

\* C5: every notification and broadcast event is emitted after the store
\* commit of the call that emits it has completed.
C5_NoEventWithoutCommit ==
  /\ \A p \in Procs : \A k \in DOMAIN req[p].events : req[p].events[k].committed
  /\ \A k \in DOMAIN sweep.events : sweep.events[k].committed

\* C6: a stored task leaves the store only as an ARCHIVED task past the
\* retention window at the instant of the sweep that removes it.
C6_DeletedOnlyByPurge ==
  [][\A id \in 1..MaxRaceTasks :
       (findTask(doc, id) # Null /\ findTask(doc', id) = Null)
       => shouldPurgeArchived(findTask(doc, id), sweep.now,
                              DEFAULT_CONFIG.archiveRetentionDays)]_vars

\* The edge sets as the claim lists them.
ForwardEdge(taskType, status) ==
  IF taskType = "LOAN_DOCS"
    THEN CASE status = "OPEN" -> {"CLAIMED"}
           [] status = "CLAIMED" -> {"MERGE_DONE"}
           [] status = "MERGE_DONE" -> {"MERGE_APPROVED"}
           [] status = "MERGE_APPROVED" -> {"COMPLETED"}
           [] status = "COMPLETED" -> {"ARCHIVED"}
           [] OTHER -> {}
    ELSE CASE status = "OPEN" -> {"CLAIMED"}
           [] status = "CLAIMED" -> {"COMPLETED"}
           [] status = "COMPLETED" -> {"ARCHIVED"}
           [] OTHER -> {}

ListedSideEdges(status) ==
  CASE status = "OPEN" -> {"CANCELLED"}
    [] status = "CLAIMED" -> {"NEEDS_REVIEW", "CANCELLED"}
    [] status = "NEEDS_REVIEW" -> {"CLAIMED", "COMPLETED", "CANCELLED"}
    [] status = "MERGE_DONE" -> {"CANCELLED"}
    [] status = "MERGE_APPROVED" -> {"CANCELLED"}
    [] OTHER -> {}

ReopenEdges(status) ==
  CASE status = "COMPLETED" -> {"NEEDS_REVIEW", "OPEN"}
    [] status = "ARCHIVED" -> {"OPEN"}
    [] OTHER -> {}

ListedEdges(t) == ForwardEdge(t.taskType, t.status) \cup ListedSideEdges(t.status)
EdgesWithReopen(t) == ListedEdges(t) \cup ReopenEdges(t.status)

\* C7 as stated: nextFlowStatuses is the forward edge plus the listed
\* side-edges and no others, and a transition outside that set is rejected.
C7_ListedEdgesOnly ==
  /\ \A t \in StoredTasks : nextFlowStatuses(t) = ListedEdges(t)
  /\ \A p \in Procs :
       (Finished(p, "transition") /\ req[p].read # Null
          /\ req[p].next \notin ListedEdges(req[p].read))
       => req[p].outcome = "rejected"

\* C7 amended: the allowed set also holds COMPLETED -> NEEDS_REVIEW, OPEN and
\* ARCHIVED -> OPEN; nothing else, and a transition outside it is rejected.
C7_EdgesWithReopen ==
  /\ \A t \in StoredTasks : nextFlowStatuses(t) = EdgesWithReopen(t)
  /\ \A p \in Procs :
       (Finished(p, "transition") /\ req[p].read # Null
          /\ req[p].next \notin EdgesWithReopen(req[p].read))
       => req[p].outcome = "rejected"

C7_Witness ==
  \E p \in Procs :
    /\ Finished(p, "transition") /\ req[p].outcome = "rejected"
    /\ req[p].read # Null /\ req[p].read.status = "COMPLETED"
    /\ req[p].next = "CANCELLED"
    /\ StoredTasks = {req[p].read}

\* C8: nextFlowStatuses never holds the task's own status, and no accepted
\* transitionStatus writes the status it read.
C8_NoSelfEdge ==
  /\ \A t \in StoredTasks : t.status \notin nextFlowStatuses(t)
  /\ \A p \in Procs :
       (req[p].op = "transition" /\ req[p].task # Null)
       => req[p].task.status # req[p].read.status

C8_Witness ==
  \E p \in Procs :
    /\ Finished(p, "transition") /\ req[p].outcome = "ok"
    /\ req[p].read.status = "NEEDS_REVIEW"
    /\ findTask(doc, 1).status = "CLAIMED"

\* C9: a transitionStatus whose target is not an allowed edge of the task
\* is rejected with the invalid-edge reason naming the from/to pair, also
\* when a permission predicate fails for the actor.
C9_InvalidEdgeFirst ==
  \A p \in Procs :
    (Finished(p, "transition") /\ req[p].read # Null
       /\ req[p].next \notin nextFlowStatuses(req[p].read))
    => /\ req[p].outcome = "rejected"
       /\ req[p].reason = InvalidEdgeReason(req[p].read.status, req[p].next)

C9_Witness ==
  \E p \in Procs :
    /\ Finished(p, "transition") /\ req[p].outcome = "rejected"
    /\ req[p].next = "CANCELLED"
    /\ req[p].next \notin nextFlowStatuses(req[p].read)
    /\ ~canCancelTask(req[p].read, req[p].user)
    /\ req[p].reason = InvalidEdgeReason(req[p].read.status, "CANCELLED")

\* The reason a call on `task` by `user` is rejected with (NoReason: accepted).
RejectionReason(op, task, next, user) ==
  CASE op = "claim" -> IF canClaimTask(task, user) THEN NoReason ELSE ClaimReason
    [] op = "unclaim" -> IF canUnclaimTask(task, user) THEN NoReason ELSE UnclaimReason
    [] OTHER -> canTransitionStatus(task, next, user).reason

\* The cause of a rejection: the task's state does not admit the call at
\* all, or it does and the identity is refused.
RejectionCause(op, task, next) ==
  IF \/ op = "claim" /\ task.status # "OPEN"
     \/ op = "unclaim" /\ task.status # "CLAIMED"
     \/ op = "transition" /\ next \notin nextFlowStatuses(task)
    THEN "invalid" ELSE "permission"

\* C10: a rejection caused by an invalid edge/state and one caused by a
\* failed permission predicate never carry the same reason: no rejected call
\* shares its reason with a rejection of the other cause (the same call on
\* the task in another status, by any identity).
C10_CausesDistinct ==
  \A p \in Procs :
    (req[p].pc = "done" /\ req[p].outcome = "rejected" /\ req[p].read # Null)
    => \A st \in TASK_STATUSES : \A u \in Users :
         LET other == [req[p].read EXCEPT !.status = st]
         IN (RejectionReason(req[p].op, other, req[p].next, u) = req[p].reason)
            => RejectionCause(req[p].op, other, req[p].next)
                 = RejectionCause(req[p].op, req[p].read, req[p].next)

\* A call that got past its checks: it is writing, notifying, or finished
\* without having been rejected.
Accepted(p) ==
  \/ req[p].pc \in {"write", "notify"}
  \/ req[p].pc = "done" /\ req[p].outcome # "rejected"

WasRejected(p) == req[p].pc = "done" /\ req[p].outcome = "rejected"
IsAdmin(user) == "ADMIN" \in UserRoles[user]
IsFileChecker(user) == "FILE_CHECKER" \in UserRoles[user]
Unchanged(p) == findTask(doc, req[p].taskId) = req[p].read

\* C11: unclaimTask is accepted only on a CLAIMED task and only for its
\* assignee or an admin; once done the stored task is OPEN with no assignee;
\* on a CLAIMED task any other identity (the creator included) is rejected
\* and the stored task is unchanged.
C11_UnclaimByAssigneeOrAdmin ==
  \A p \in Procs :
    (req[p].op = "unclaim" /\ req[p].read # Null)
    => /\ Accepted(p)
            => /\ req[p].read.status = "CLAIMED"
               /\ req[p].read.assignee = req[p].user \/ IsAdmin(req[p].user)
       /\ req[p].committed
            => /\ findTask(doc, req[p].taskId).status = "OPEN"
               /\ findTask(doc, req[p].taskId).assignee = NoUser
       /\ ( /\ req[p].read.status = "CLAIMED"
            /\ req[p].read.assignee # req[p].user
            /\ ~IsAdmin(req[p].user) )
            => WasRejected(p) /\ Unchanged(p)

C11_Witness ==
  \E p \in Procs :
    /\ req[p].op = "unclaim" /\ WasRejected(p)
    /\ req[p].read.status = "CLAIMED"
    /\ req[p].read.createdBy = req[p].user
    /\ req[p].read.assignee = "loan-officer-2"

\* C12: on an OPEN FRAUD task claimTask by an identity without FILE_CHECKER
\* (admin or creator included) is rejected and the stored task is unchanged;
\* by an identity with FILE_CHECKER it is accepted and once written the
\* stored task is CLAIMED with that identity as assignee.
C12_FraudClaimNeedsFileChecker ==
  \A p \in Procs :
    ( /\ req[p].op = "claim" /\ req[p].read # Null
      /\ req[p].read.taskType = "FRAUD" /\ req[p].read.status = "OPEN" )
    => IF IsFileChecker(req[p].user)
         THEN /\ Accepted(p)
              /\ req[p].committed
                   => /\ findTask(doc, req[p].taskId).status = "CLAIMED"
                      /\ findTask(doc, req[p].taskId).assignee = req[p].user
         ELSE /\ WasRejected(p)
              /\ Unchanged(p)
              /\ findTask(doc, req[p].taskId).status = "OPEN"

C12_Witness ==
  \E p \in Procs :
    /\ req[p].op = "claim" /\ WasRejected(p)
    /\ req[p].read.taskType = "FRAUD" /\ req[p].read.status = "OPEN"
    /\ req[p].read.assignee = NoUser
    /\ req[p].user = "admin-1" /\ req[p].read.createdBy = "admin-1"

\* C14: on a task in OPEN, CLAIMED, NEEDS_REVIEW, MERGE_DONE or
\* MERGE_APPROVED a transition to CANCELLED is rejected exactly when the
\* actor is neither the creator nor an admin, and a rejection leaves the
\* stored task unchanged.
C14_CancelByCreatorOrAdmin ==
  \A p \in Procs :
    ( /\ Finished(p, "transition") /\ req[p].read # Null
      /\ req[p].next = "CANCELLED"
      /\ req[p].read.status \in {"OPEN", "CLAIMED", "NEEDS_REVIEW", "MERGE_DONE",
                                 "MERGE_APPROVED"} )
    => /\ WasRejected(p)
            <=> ~(req[p].read.createdBy = req[p].user \/ IsAdmin(req[p].user))
       /\ WasRejected(p) => Unchanged(p)
       /\ req[p].outcome = "ok" => findTask(doc, req[p].taskId).status = "CANCELLED"

C14_Witness ==
  \E p \in Procs :
    /\ Finished(p, "transition") /\ WasRejected(p)
    /\ req[p].next = "CANCELLED"
    /\ req[p].read.status = "CLAIMED"
    /\ req[p].read.assignee = req[p].user
    /\ req[p].reason = CancelReason

\* C15: a transition to NEEDS_REVIEW is accepted only for the task's creator
\* or current assignee (an admin who is neither is rejected), and on a task
\* with an edge to NEEDS_REVIEW the creator is accepted also when someone
\* else is the assignee.
C15_NeedsReviewByCreatorOrAssignee ==
  \A p \in Procs :
    ( /\ Finished(p, "transition") /\ req[p].read # Null
      /\ req[p].next = "NEEDS_REVIEW" )
    => /\ Accepted(p)
            => req[p].user \in {req[p].read.createdBy, req[p].read.assignee}
       /\ ( /\ "NEEDS_REVIEW" \in nextFlowStatuses(req[p].read)
            /\ req[p].user = req[p].read.createdBy )
            => Accepted(p)

C15_Witness ==
  \E p \in Procs :
    /\ Finished(p, "transition") /\ WasRejected(p)
    /\ req[p].next = "NEEDS_REVIEW"
    /\ req[p].read.status = "CLAIMED"
    /\ req[p].user = "admin-1" /\ req[p].read.createdBy = "loan-officer-1"
    /\ req[p].reason = NeedsReviewReason

\* C16: on a task that is not FRAUD, a transition along an allowed edge to
\* COMPLETED, or from NEEDS_REVIEW to CLAIMED, is accepted exactly when the
\* actor is the creator, the assignee or an admin; anyone else is rejected
\* with a permission reason.
C16_CompleteOrResolveByParty ==
  \A p \in Procs :
    ( /\ Finished(p, "transition") /\ req[p].read # Null
      /\ req[p].read.taskType # "FRAUD"
      /\ req[p].next \in nextFlowStatuses(req[p].read)
      /\ \/ req[p].next = "COMPLETED"
            /\ req[p].read.status \in {"CLAIMED", "MERGE_APPROVED", "NEEDS_REVIEW"}
         \/ req[p].next = "CLAIMED" /\ req[p].read.status = "NEEDS_REVIEW" )
    => LET party == \/ req[p].user \in {req[p].read.createdBy, req[p].read.assignee}
                    \/ IsAdmin(req[p].user)
       IN /\ Accepted(p) <=> party
          /\ ~party => /\ WasRejected(p)
                       /\ req[p].reason \in {MoveNeedsReviewReason, CompleteReason}

C16_Witness ==
  \E p \in Procs :
    /\ Finished(p, "transition") /\ WasRejected(p)
    /\ req[p].read.taskType = "LOAN_DOCS" /\ req[p].read.status = "MERGE_APPROVED"
    /\ req[p].next = "COMPLETED"
    /\ req[p].user = "loan-officer-2" /\ req[p].read.assignee = "file-checker-1"
    /\ req[p].reason = CompleteReason

\* C13: a stored FRAUD task becomes COMPLETED only by the write of a
\* transitionStatus call issued by an identity holding FILE_CHECKER, and a
\* call to complete a FRAUD task by an identity without FILE_CHECKER is
\* rejected whatever the task's status and the caller's relation to it.
C13_FraudCompletedByFileChecker ==
  [][/\ \A id \in 1..MaxTasks :
          ( /\ findTask(doc', id) # Null
            /\ findTask(doc', id).taskType = "FRAUD"
            /\ findTask(doc', id).status = "COMPLETED"
            /\ findTask(doc, id) = Null \/ findTask(doc, id).status # "COMPLETED" )
          => /\ chain # <<>>
             /\ chain[1].owner \in Procs
             /\ req[chain[1].owner].op = "transition"
             /\ req[chain[1].owner].next = "COMPLETED"
             /\ IsFileChecker(req[chain[1].owner].user)
     /\ \A p \in Procs :
          ( /\ req[p].pc = "idle"
            /\ req'[p].op = "transition" /\ req'[p].next = "COMPLETED"
            /\ req'[p].read # Null /\ req'[p].read.taskType = "FRAUD"
            /\ ~IsFileChecker(req'[p].user) )
          => req'[p].outcome = "rejected"]_vars

C13_Witness ==
  \E p \in Procs :
    /\ Finished(p, "transition") /\ req[p].outcome = "ok"
    /\ req[p].next = "COMPLETED"
    /\ req[p].read.taskType = "FRAUD" /\ req[p].read.status = "CLAIMED"
    /\ findTask(doc, req[p].taskId).status = "COMPLETED"

\* C17: a claimTask, unclaimTask or transitionStatus call on an absent task
\* id is rejected as not found, and a rejected call leaves the stored tasks,
\* the history log and the store queue as they were and emits no event.
C17_RejectionChangesNothing ==
  [][\A p \in Procs :
       /\ ( /\ req[p].pc = "idle" /\ req'[p].pc # "idle"
            /\ req'[p].op # "create"
            /\ findTask(doc, req'[p].taskId) = Null )
          => /\ req'[p].outcome = "rejected"
             /\ req'[p].reason = NotFoundReason
       /\ (req[p].pc = "idle" /\ req'[p].outcome = "rejected")
          => /\ doc' = doc
             /\ chain' = chain
       /\ req'[p].outcome = "rejected" => req'[p].events = <<>>]_vars

C17_Witness ==
  \E p \in Procs :
    /\ Finished(p, "transition") /\ WasRejected(p)
    /\ req[p].reason = CancelReason
    /\ req[p].events = <<>>
    /\ Len(doc.history) = 2
    /\ findTask(doc, req[p].taskId) = req[p].read

C19_OneEventPerMutation ==
  [][\A id \in 1..MaxTasks :
       LET before == findTask(doc, id)
           after == findTask(doc', id)
           mutated == \/ before = Null /\ after # Null
                      \/ /\ before # Null /\ after # Null
                         /\ \/ before.status # after.status
                            \/ before.assignee # after.assignee
       IN Len(allHistoryForTask(doc', id))
            = Len(allHistoryForTask(doc, id)) + (IF mutated THEN 1 ELSE 0)]_vars

\* C20: a createTask, claimTask, unclaimTask or transitionStatus call that
\* returned successfully has emitted exactly one broadcast, carrying the
\* updated (stored) task, and exactly three notifications, one for each of
\* IN_APP, DM and CHANNEL, all with the same kind, task snapshot and actor.
C20_OneBroadcastThreeNotifications ==
  \A p \in Procs :
    (req[p].pc = "done" /\ req[p].outcome = "ok")
    => LET ev == req[p].events
           broadcasts == {k \in DOMAIN ev : ev[k].ch = "broadcast"}
           notifies == {k \in DOMAIN ev : ev[k].ch = "notify"}
       IN /\ Cardinality(broadcasts) = 1
          /\ \A k \in broadcasts : ev[k].task = req[p].task
          /\ req[p].task = findTask(doc, req[p].taskId)
          /\ Cardinality(notifies) = 3
          /\ {ev[k].target : k \in notifies} = {"IN_APP", "DM", "CHANNEL"}
          /\ \A k \in notifies :
               /\ ev[k].task = req[p].task
               /\ ev[k].actor = req[p].user
               /\ \A j \in notifies : ev[j].type = ev[k].type

C20_Witness ==
  \E p \in Procs :
    /\ Finished(p, "unclaim") /\ req[p].outcome = "ok"
    /\ Len(req[p].events) = 4
    /\ req[p].events[4].target = "CHANNEL"
    /\ req[p].events[4].type = "TASK_UNCLAIMED"

\* C21: when a createTask, claimTask, unclaimTask or transitionStatus call
\* has returned successfully and nothing else has run since, findTask of its
\* id gives a task equal in every field to the one the call returned.
C21_RoundTrip ==
  \A p \in Procs :
    (req[p].pc = "done" /\ req[p].outcome = "ok" /\ chain = <<>> /\ sweep.pc = "idle")
    => findTask(doc, req[p].taskId) = req[p].task

C21_Witness ==
  \E p \in Procs :
    /\ Finished(p, "transition") /\ req[p].outcome = "ok"
    /\ req[p].next = "CANCELLED"
    /\ req[p].read.status = "CLAIMED"
    /\ findTask(doc, req[p].taskId).cancelledAt = now
    /\ Len(doc.tasks) = 1

\* C22: the read-modify-write sections of the store's queued operations
\* never overlap: at most one queued operation is between its read and its
\* write, and it is the oldest one, however many callers have enqueued.
C22_WritersSerialized ==
  /\ Cardinality({k \in DOMAIN chain : chain[k].running}) <= 1
  /\ \A k \in DOMAIN chain : chain[k].running => k = 1

C22_Witness ==
  /\ Len(chain) >= 2
  /\ chain[1].running
  /\ chain[1].owner # chain[2].owner
  /\ chain[1].data # doc \/ chain[1].kind = "replace"

\* C23: queued store operations run in the order they were enqueued and each
\* one sees what the one before wrote: when two createTask calls in flight
\* together were the only calls accepted and both upserts are written, the
\* document holds both tasks and both history events, in enqueue order.
C23_FifoSeesPriorWrite ==
  \A p \in Procs : \A q \in Procs \ {p} :
    ( /\ req[p].op = "create" /\ req[q].op = "create"
      /\ req[p].committed /\ req[q].committed
      /\ req[p].taskId < req[q].taskId
      /\ budget.ops = MaxRaceOps - 2 )
    => /\ doc.tasks = <<req[p].task, req[q].task>>
       /\ [k \in DOMAIN doc.history |-> doc.history[k].taskId]
            = <<req[p].taskId, req[q].taskId>>

C23_Witness ==
  \E p \in Procs : \E q \in Procs \ {p} :
    /\ req[p].op = "create" /\ req[q].op = "create"
    /\ req[p].committed /\ req[q].committed
    /\ req[p].taskId < req[q].taskId
    /\ budget.ops = MaxRaceOps - 2
    /\ Len(doc.history) = 2

\* A sweep that ran to its end and returned its counters.
SweepOk == sweep.pc = "done" /\ sweep.outcome = "ok"

\* The instant is on a weekday between 08:30 and 17:30 of the business
\* timezone, both ends included.
InBusinessHours(at) ==
  LET local == at + zonedOffsetMinutes(at)
      minuteOfDay == local % MinutesPerDay
  IN /\ WeekdayNames[((local \div MinutesPerDay) % 7) + 1] \notin {"Sat", "Sun"}
     /\ minuteOfDay >= 8 * MinutesPerHour + 30
     /\ minuteOfDay <= 17 * MinutesPerHour + 30

\* The conditions under which a task read by a sweep at instant at is due a reminder.
ReminderDue(t, at) ==
  /\ t.status \in {"OPEN", "CLAIMED", "NEEDS_REVIEW", "MERGE_DONE", "MERGE_APPROVED"}
  /\ t.dueAt < at
  /\ t.lastReminderAt = NoTime \/ at - t.lastReminderAt >= 60
  /\ InBusinessHours(at)

\* What the sweep made of the task with this id, before the purge filter.
AfterPass(id) ==
  LET k == CHOOSE k \in DOMAIN sweep.updatedTasks : sweep.updatedTasks[k].id = id
  IN sweep.updatedTasks[k]

ReminderEvents(id, target) ==
  {k \in DOMAIN sweep.events :
     /\ sweep.events[k].ch = "notify" /\ sweep.events[k].type = "TASK_REMINDER"
     /\ sweep.events[k].task.id = id /\ sweep.events[k].target = target}

RemindedIffDue ==
  SweepOk =>
    /\ \A k \in DOMAIN sweep.tasks :
         LET t == sweep.tasks[k]
         IN IF ReminderDue(t, sweep.now)
              THEN /\ AfterPass(t.id) = [t EXCEPT !.lastReminderAt = sweep.now,
                                                  !.updatedAt = sweep.now]
                   /\ findTask(doc, t.id) = AfterPass(t.id)
                   /\ \A k2 \in DOMAIN TARGETS :
                        Cardinality(ReminderEvents(t.id, TARGETS[k2])) = 1
              ELSE /\ AfterPass(t.id).lastReminderAt = t.lastReminderAt
                   /\ \A k2 \in DOMAIN TARGETS : ReminderEvents(t.id, TARGETS[k2]) = {}
    /\ sweep.reminded =
         Cardinality({k \in DOMAIN sweep.tasks : ReminderDue(sweep.tasks[k], sweep.now)})

C25_ReminderThrottle ==
  /\ \A i \in DOMAIN notified : \A j \in DOMAIN notified :
       (i < j /\ notified[i].taskId = notified[j].taskId
              /\ notified[i].target = notified[j].target)
         => notified[j].at - notified[i].at >= 60
  /\ \A i \in DOMAIN notified :
       notified[i].status \notin {"COMPLETED", "CANCELLED", "ARCHIVED"}

\* The terminal timestamp the 14 days are counted from.
TerminalTimestamp(t) ==
  IF t.status = "COMPLETED" /\ t.completedAt # NoTime THEN t.completedAt
  ELSE IF t.status = "CANCELLED" /\ t.cancelledAt # NoTime THEN t.cancelledAt
  ELSE t.updatedAt

ArchiveDue(t, at) ==
  /\ t.status \in {"COMPLETED", "CANCELLED"}
  /\ at - TerminalTimestamp(t) > 14 * MinutesPerDay

\* C26: a sweep that returns archives a task (status ARCHIVED, archivedAt and
\* updatedAt set to the sweep's instant, autoArchived counted) exactly when
\* the task is COMPLETED or CANCELLED and more than 14 days have passed since
\* completedAt for a COMPLETED task, cancelledAt for a CANCELLED one, or
\* updatedAt when that timestamp is absent; 14 days exactly does not archive.
C26_ArchivedIffStale ==
  SweepOk =>
    /\ \A k \in DOMAIN sweep.tasks :
         LET t == sweep.tasks[k]
         IN IF ArchiveDue(t, sweep.now)
              THEN AfterPass(t.id) = [t EXCEPT !.status = "ARCHIVED",
                                               !.archivedAt = sweep.now,
                                               !.updatedAt = sweep.now]
              ELSE /\ AfterPass(t.id).status = t.status
                   /\ AfterPass(t.id).archivedAt = t.archivedAt
    /\ sweep.autoArchived =
         Cardinality({k \in DOMAIN sweep.tasks : ArchiveDue(sweep.tasks[k], sweep.now)})

PastRetention(t, at) ==
  /\ t.status = "ARCHIVED"
  /\ t.archivedAt # NoTime
  /\ at - t.archivedAt > DEFAULT_CONFIG.archiveRetentionDays * MinutesPerDay

TaskIds(tasks) == {tasks[k].id : k \in DOMAIN tasks}

\* C27: after a sweep that returns, the tasks gone from the store are exactly
\* the ARCHIVED tasks whose archivedAt is more than the retention days before
\* the sweep's instant; every other task is still stored, and the purged
\* counter is the number of tasks removed.
C27_PurgeExactlyPastRetention ==
  SweepOk =>
    LET gone == {k \in DOMAIN sweep.tasks : PastRetention(sweep.tasks[k], sweep.now)}
    IN /\ TaskIds(doc.tasks) = TaskIds(sweep.tasks) \ {sweep.tasks[k].id : k \in gone}
       /\ Len(doc.tasks) = Len(sweep.tasks) - Cardinality(gone)
       /\ sweep.purged = Cardinality(gone)

C27_Witness ==
  /\ SweepOk
  /\ sweep.purged = 1
  /\ Len(sweep.tasks) = 2
  /\ Len(doc.tasks) = 1
  /\ doc.tasks[1].status = "ARCHIVED"
  /\ sweep.now - doc.tasks[1].archivedAt
       = DEFAULT_CONFIG.archiveRetentionDays * MinutesPerDay

Broadcasts(events) == SelectSeq(events, LAMBDA e : e.ch = "broadcast")

\* C28: a sweep that returns with its three counters at zero has written
\* nothing and broadcast nothing; one that returns with a nonzero counter has
\* made one batch write of the whole task set as it stands after the pass,
\* and then one broadcast for each retained task and none for a purged one.
C28_WriteAndBroadcastOnlyOnChange ==
  /\ Cardinality({k \in DOMAIN chain : chain[k].owner = "sweep"})
       = IF sweep.pc = "write" THEN 1 ELSE 0
  /\ SweepOk =>
       IF sweep.reminded = 0 /\ sweep.autoArchived = 0 /\ sweep.purged = 0
         THEN /\ ~sweep.committed
              /\ Broadcasts(sweep.events) = <<>>
              /\ allTasks(doc) = sweep.tasks
         ELSE /\ sweep.committed
              /\ doc.tasks = sweep.retained
              /\ sweep.retained = SelectSeq(sweep.updatedTasks,
                                    LAMBDA t : ~PastRetention(t, sweep.now))
              /\ Broadcasts(sweep.events)
                   = [k \in DOMAIN sweep.retained |-> BroadcastEvent(sweep.retained[k], TRUE)]

C28_Witness ==
  /\ SweepOk
  /\ sweep.purged = 1
  /\ sweep.reminded = 1
  /\ Len(sweep.retained) = 1
  /\ Len(Broadcasts(sweep.events)) = 1
  /\ Len(sweep.events) = 1 + Len(TARGETS)

\* The running (or just finished) sweep started at the very instant of the
\* previous one, which had returned its counters.
SecondRunAtSameNow ==
  /\ sweep.pc # "idle"
  /\ sweep.last.outcome = "ok"
  /\ sweep.last.at = sweep.now

\* C29: runMaintenance run again right after a run that returned, at the same
\* instant, returns reminded = 0, autoArchived = 0 and purged = 0, writes
\* nothing and emits no event.
C29_SecondSweepDoesNothing ==
  SecondRunAtSameNow =>
    /\ SweepOk
    /\ sweep.reminded = 0 /\ sweep.autoArchived = 0 /\ sweep.purged = 0
    /\ ~sweep.committed
    /\ sweep.events = <<>>
    /\ chain = <<>>
    /\ allTasks(doc) = sweep.tasks

C29_Witness ==
  /\ SecondRunAtSameNow
  /\ SweepOk
  /\ \E k \in DOMAIN doc.tasks : doc.tasks[k].lastReminderAt = sweep.now
  /\ \E k \in DOMAIN doc.tasks :
       doc.tasks[k].status = "ARCHIVED" /\ doc.tasks[k].archivedAt = sweep.now

\* The sweep ended because the delivery of one task's reminder failed.
ReminderDeliveryFailed ==
  /\ sweep.pc = "done"
  /\ sweep.outcome = "failed"
  /\ sweep.cur # Null

\* C30: when the delivery of one task's reminder fails during a sweep, the
\* other tasks of the sweep are still processed and their results stored:
\* the stale ones are archived, the ones past retention are gone, the ones
\* due a reminder carry the sweep's instant as lastReminderAt.
C30_OneFailureDoesNotAbort ==
  ReminderDeliveryFailed =>
    \A k \in DOMAIN sweep.tasks :
      LET t == sweep.tasks[k]
      IN t.id # sweep.cur.id =>
           /\ ArchiveDue(t, sweep.now) => findTask(doc, t.id).status = "ARCHIVED"
           /\ PastRetention(t, sweep.now) => findTask(doc, t.id) = Null
           /\ ReminderDue(t, sweep.now) => findTask(doc, t.id).lastReminderAt = sweep.now

\* C31: no step changes the dueAt of a task that stays stored: claimTask,
\* unclaimTask, transitionStatus and the sweep's reminder and auto-archive
\* all leave it as createTask set it.
C31_DueAtSetOnce ==
  [][\A i \in DOMAIN doc.tasks : \A j \in DOMAIN doc'.tasks :
       doc.tasks[i].id = doc'.tasks[j].id => doc'.tasks[j].dueAt = doc.tasks[i].dueAt]_vars

C31_Witness ==
  \E k \in DOMAIN doc.tasks :
    /\ doc.tasks[k].lastReminderAt # NoTime
    /\ doc.tasks[k].status = "CLAIMED"
    /\ doc.tasks[k].updatedAt > doc.tasks[k].lastReminderAt
         \/ doc.tasks[k].assignee # NoUser
    /\ doc.tasks[k].dueAt = doc.tasks[k].createdAt
    /\ now > doc.tasks[k].createdAt

\* C32: the history log only grows: every step leaves the events already
\* recorded in place and unaltered, so after a sweep has purged a task the
\* events recorded for its id are all still there.
C32_HistoryAppendOnly ==
  [][/\ Len(doc'.history) >= Len(doc.history)
     /\ SubSeq(doc'.history, 1, Len(doc.history)) = doc.history]_vars

C32_Witness ==
  /\ SweepOk
  /\ sweep.purged = 1
  /\ sweep.committed
  /\ findTask(doc, 1) = Null
  /\ Len(allHistoryForTask(doc, 1)) = 1
  /\ allHistoryForTask(doc, 1)[1].action = "TASK_CREATED"

NotAfter(a, b) == a.minute < b.minute \/ (a.minute = b.minute /\ a.second <= b.second)

\* The local calendar day of a Date, its weekday (0 = Monday .. 6 = Sunday)
\* and the Date of the business-day end (17:30:00) of a local day.
LocalDay(date) == (date.minute + zonedOffsetMinutes(date.minute)) \div MinutesPerDay
LocalMinuteOfDay(date) == (date.minute + zonedOffsetMinutes(date.minute)) % MinutesPerDay
IsWeekday(day) == day % 7 < 5
BusinessEnd(day) ==
  [minute |-> day * MinutesPerDay + 17 * MinutesPerHour + 30 - zonedOffsetMinutes(0),
   second |-> 0]
FirstWeekdayFrom(day) == CHOOSE d \in day..(day + 2) :
  IsWeekday(d) /\ \A e \in day..(d - 1) : ~IsWeekday(e)

Returned(urgency) == calc.urgency = urgency /\ calc.result # NoDate

\* C34: for YELLOW the due date is the business-day end of now's local day
\* when now is on a weekday at or before that end (now exactly at the end
\* included), otherwise the business-day end of the next weekday, Saturday
\* and Sunday skipped; it is never earlier than now.
C34_YellowEndOfBusinessDay ==
  Returned("YELLOW") =>
    LET today == LocalDay(calc.date)
    IN /\ calc.result =
            IF IsWeekday(today) /\ NotAfter(calc.date, BusinessEnd(today))
              THEN BusinessEnd(today)
              ELSE BusinessEnd(FirstWeekdayFrom(today + 1))
       /\ NotAfter(calc.date, calc.result)

\* C35: for GREEN the due date is the business-day end of the next weekday
\* after now's local day when now is on a weekday (Friday gives Monday), and
\* of the nearest upcoming weekday when now is on a weekend; it is strictly
\* after now and never on a Saturday or Sunday.
C35_GreenNextBusinessDay ==
  Returned("GREEN") =>
    LET today == LocalDay(calc.date)
    IN /\ calc.result =
            IF IsWeekday(today) THEN BusinessEnd(FirstWeekdayFrom(today + 1))
            ELSE BusinessEnd(FirstWeekdayFrom(today))
       /\ ~NotAfter(calc.result, calc.date)
       /\ IsWeekday(LocalDay(calc.result))

C35_Witness ==
  /\ Returned("GREEN")
  /\ LocalDay(calc.date) % 7 = 4
  /\ LocalMinuteOfDay(calc.date) = 17 * MinutesPerHour + 30
  /\ calc.date.second = 30
  /\ LocalDay(calc.result) = LocalDay(calc.date) + 3

\* C36: in every store reached from the empty one by createTask, claimTask,
\* unclaimTask, transitionStatus and runMaintenance, a COMPLETED task has
\* completedAt, a CANCELLED task has cancelledAt and an ARCHIVED task has
\* archivedAt, whether a transition or the sweep archived it.
C36_TerminalTimestamps ==
  \A k \in DOMAIN doc.tasks :
    LET t == doc.tasks[k]
    IN /\ t.status = "COMPLETED" => t.completedAt # NoTime
       /\ t.status = "CANCELLED" => t.cancelledAt # NoTime
       /\ t.status = "ARCHIVED" => t.archivedAt # NoTime

C36_Witness ==
  \E k \in DOMAIN doc.tasks :
    /\ doc.tasks[k].status = "ARCHIVED"
    /\ doc.tasks[k].cancelledAt # NoTime
    /\ doc.tasks[k].archivedAt - doc.tasks[k].cancelledAt > AutoArchiveAfter
    /\ allHistoryForTask(doc, doc.tasks[k].id)[Len(allHistoryForTask(doc, doc.tasks[k].id))].detail
         = <<"OPEN", "->", "CANCELLED">>

\* The call ended because a notification delivery failed.
DeliveryFailed(p) ==
  req[p].pc = "done" /\ req[p].outcome = "failed" /\ req[p].reason = NotifyFailed

\* C37: when a delivery fails during createTask, claimTask, unclaimTask or
\* transitionStatus the call reports the failure, the task it wrote and the
\* paired history event stay stored, the broadcast has been emitted, and no
\* target after the failing one is notified.
C37_DeliveryFailureKeepsState ==
  \A p \in Procs :
    DeliveryFailed(p) =>
      LET r == req[p]
          history == allHistoryForTask(doc, r.taskId)
      IN /\ r.op \in {"create", "claim", "unclaim", "transition"}
         /\ r.committed
         /\ findTask(doc, r.taskId) = r.task
         /\ history # <<>>
         /\ history[Len(history)].by = r.user
         /\ history[Len(history)].at = r.task.updatedAt
         /\ r.events[1] = BroadcastEvent(r.task, TRUE)
         /\ Len(r.events) = 1 + r.target
         /\ \A k \in 2..Len(r.events) :
              r.events[k].ch = "notify" /\ r.events[k].target = TARGETS[k - 1]

C37_Witness ==
  \E p \in Procs :
    /\ DeliveryFailed(p)
    /\ req[p].op = "claim"
    /\ req[p].target = 2
    /\ findTask(doc, req[p].taskId).status = "CLAIMED"
    /\ findTask(doc, req[p].taskId).assignee = req[p].user
    /\ Len(allHistoryForTask(doc, req[p].taskId)) = 2

\* C38: when a queued store operation fails, only the caller of that
\* operation (the oldest in the queue) gets the failure; the operations
\* enqueued after it stay queued in their order, and their callers and the
\* stored document are left as they were.
C38_FailedWriteDoesNotBlock ==
  [][/\ \A p \in Procs :
          (req'[p].reason = WriteFailed /\ req[p].reason # WriteFailed)
            => /\ chain # <<>> /\ chain[1].owner = p
               /\ chain' = Tail(chain)
               /\ \A q \in Procs \ {p} : req'[q] = req[q]
               /\ sweep' = sweep
               /\ doc' = doc
     /\ (sweep.pc = "write" /\ sweep'.outcome = "failed")
            => /\ chain # <<>> /\ chain[1].owner = "sweep"
               /\ chain' = Tail(chain)
               /\ req' = req
               /\ doc' = doc]_vars

C38_Witness ==
  \E p \in Procs : \E q \in Procs \ {p} :
    /\ req[p].op = "create" /\ req[p].reason = WriteFailed
    /\ req[q].op = "create" /\ req[q].committed
    /\ req[p].taskId < req[q].taskId
    /\ findTask(doc, req[p].taskId) = Null
    /\ findTask(doc, req[q].taskId) = req[q].task

\* C39: a runMaintenance run that fails is caught by the timer callback and
\* the timer stays armed: as long as the timer has firings left, a failed
\* run is followed by another runMaintenance run.
C39_SchedulerSurvivesFailure ==
  (sweep.pc = "done" /\ sweep.outcome = "failed" /\ budget.ops > 0)
    ~> (sweep.pc # "idle" /\ sweep.last.outcome = "failed")

C39_Witness ==
  /\ SweepOk
  /\ sweep.committed
  /\ sweep.reminded = 1
  /\ sweep.last.outcome = "failed"
  /\ sweep.last.at = sweep.now

\* C40: a transition to MERGE_DONE, MERGE_APPROVED or ARCHIVED along an
\* allowed edge is accepted whoever asks for it, an identity that is neither
\* creator, assignee nor admin and has no file-checker role included; once
\* done the stored task has the target status.
C40_NoGateOnMergeAndArchive ==
  \A p \in Procs :
    ( /\ req[p].op = "transition" /\ req[p].pc # "idle" /\ req[p].read # Null
      /\ req[p].next \in {"MERGE_DONE", "MERGE_APPROVED", "ARCHIVED"}
      /\ req[p].next \in nextFlowStatuses(req[p].read) )
    => /\ Accepted(p)
       /\ req[p].task.status = req[p].next
       /\ req[p].committed => findTask(doc, req[p].taskId).status = req[p].next

C40_Witness ==
  \E p \in Procs :
    /\ Finished(p, "transition") /\ req[p].outcome = "ok"
    /\ req[p].next = "MERGE_DONE"
    /\ req[p].user \notin {req[p].read.createdBy, req[p].read.assignee}
    /\ ~IsAdmin(req[p].user) /\ ~IsFileChecker(req[p].user)
    /\ findTask(doc, req[p].taskId).status = "MERGE_DONE"

====
